---- MODULE Spec2Model ----
(***************************************************************************)
(* The Guttenberg Press: the selection engine (modules/rank-stories.js)    *)
(* and the feedback weight adapter (capture-feedback code in normalize.js, *)
(* lib/storage.js).                                                        *)
(*                                                                         *)
(* Numbers.  JavaScript numbers are modelled as exact rationals            *)
(* [n |-> numerator, d |-> denominator] in lowest terms; binary floating   *)
(* point rounding is not modelled.  Dimension scores are integers 0..10.   *)
(***************************************************************************)
EXTENDS Integers, Sequences, FiniteSets, TLC

(***************************************************************************)
(* Bounds of the model.                                                    *)
(***************************************************************************)
\* clusters of an input list that are drawn freely, one profile each
MaxHead == 1
\* clusters that follow them as one batch sharing a profile
MaxTail == 8
\* entries of a feedback window
MaxFeedback == 3
\* Weight Adapter runs in one behaviour
MaxRuns == 2
\* starts of the nightly pipeline in one behaviour
MaxStarts == 2

(***************************************************************************)
(* Exact rational arithmetic.                                              *)
(***************************************************************************)
Abs(x) == IF x < 0 THEN -x ELSE x

RECURSIVE GCD(_, _)
GCD(a, b) == IF b = 0 THEN a ELSE GCD(b, a % b)

Rat(n, d) ==
  LET g == GCD(Abs(n), d)
  IN  IF n = 0 THEN [n |-> 0, d |-> 1] ELSE [n |-> n \div g, d |-> d \div g]

Zero == Rat(0, 1)
RInt(k) == [n |-> k, d |-> 1]
RAdd(a, b) == Rat(a.n * b.d + b.n * a.d, a.d * b.d)
RMul(a, b) == Rat(a.n * b.n, a.d * b.d)
RDiv(a, b) == Rat(a.n * b.d, a.d * b.n)
RGe(a, b) == a.n * b.d >= b.n * a.d
RGt(a, b) == a.n * b.d > b.n * a.d
RMax(a, b) == IF RGe(a, b) THEN a ELSE b
RMin(a, b) == IF RGe(a, b) THEN b ELSE a
\* JavaScript truthiness of a number: 0 is falsy
Truthy(a) == a.n # 0
\* x || dflt, for numbers
OrElse(x, dflt) == IF Truthy(x) THEN x ELSE dflt

(***************************************************************************)
(* Vocabulary.                                                             *)
(***************************************************************************)
Dimensions ==
  {"system_shift", "signal_timing", "cross_domain", "actionability",
   "evidence_quality", "disagreement"}

DimensionOrder ==
  <<"system_shift", "signal_timing", "cross_domain", "actionability",
    "evidence_quality", "disagreement">>

SectionOrder == <<"front_page", "business", "sports", "culture", "personal">>
Sections == {SectionOrder[i] : i \in 1..Len(SectionOrder)}

\* a dimension score the judge did not deliver (undefined in the object)
Missing == -1

DEFAULT_WEIGHTS ==
  [system_shift |-> Rat(25, 100), signal_timing |-> Rat(20, 100),
   cross_domain |-> Rat(20, 100), actionability |-> Rat(20, 100),
   evidence_quality |-> Rat(10, 100), disagreement |-> Rat(5, 100)]

\* the value of the module-level DEFAULT_CONFIG object when the module loads
InitialDefaultConfig ==
  [threshold |-> [front_page |-> Rat(70, 10), business |-> Rat(55, 10),
                  sports |-> Rat(50, 10), culture |-> Rat(50, 10),
                  personal |-> Rat(60, 10)],
   manual_boost |-> RInt(2),
   max |-> [front_page |-> 5, business |-> 4, sports |-> 3, culture |-> 3,
            personal |-> 3],
   min_total_stories |-> 8,
   surprise_quota_threshold |-> Rat(50, 10)]

(***************************************************************************)
(* State.                                                                  *)
(***************************************************************************)
VARIABLES
  store,            \* config/judgment-model.json, the persisted document
  DEFAULT_CONFIG,   \* the module-level object of rank-stories.js
  scoredData,       \* the argument of rankStories: the scored cluster list
  pc,               \* position of the run in progress
  weights,          \* rankStories: local weights
  config,           \* rankStories: local config
  sortedClusters,   \* rankStories: clusters with final_score, sorted
  selections,       \* rankStories: section name -> list of stories
  usedClusterIds,   \* rankStories: the used-identifier set
  nextRank,         \* rankStories: next rank number
  fallbackRan,      \* whether the fallback block (lines 265-314) was entered
  surprisePick,     \* rankStories: sequence of 0 or 1 story
  result,           \* the returned selection, <<>> until the run returns
  now,              \* the clock new Date() reads
  runs,             \* Weight Adapter runs so far
  lastRun,          \* what the last Weight Adapter run computed and returned
  feedbackStore,    \* data/feedback: day -> the entries of that day's file
  pipeline,         \* the nightly run in progress: running, date, next step
  artifacts,        \* data/papers/<date>: date -> the steps whose file exists
  papers,           \* the dates whose final paper is saved
  executions,       \* date -> step -> how often the step was executed
  starts,           \* nightly runs started so far
  clustersData,     \* the argument of scoreDimensions
  scored_clusters,  \* scoreDimensions: the list being built
  position,         \* scoreDimensions: the loop index i, counted from 1
  lensResults,      \* scoreCluster: lens -> the state of its judge call
  judge,            \* what the judge does: cluster index -> lens -> outcome
  outOfOrder,       \* a lens call settled before the call of an earlier lens
  jpc,              \* position of the scoring run
  rankRun,          \* the number of the rankStories call in this process
  env,              \* process.env: which credentials are set
  transporter,      \* email-client.js: whether the transporter is created
  dpc,              \* position of deliverPaper
  attempt,          \* retryWithBackoff: the loop index i
  delivery_status,  \* deliverPaper: results.delivery_status
  accepted,         \* the channels whose transport accepted the message
  deliveries,       \* deliverPaper calls so far
  calls,            \* invocation -> where it stands and what it holds
  firstStore,       \* the store before the invocations
  overlapped        \* an invocation began while another was in progress

rankVars ==
  <<DEFAULT_CONFIG, scoredData, pc, weights, config, sortedClusters,
    selections, usedClusterIds, nextRank, fallbackRan, surprisePick, result>>

adapterVars == <<now, runs, lastRun, feedbackStore>>

pipelineVars == <<pipeline, artifacts, papers, executions, starts>>

judgeVars ==
  <<clustersData, scored_clusters, position, lensResults, judge, outOfOrder,
    jpc>>

processVars == <<rankRun>>

deliveryVars ==
  <<env, transporter, dpc, attempt, delivery_status, accepted, deliveries>>

overlapVars == <<calls, firstStore, overlapped>>

extraVars == <<judgeVars, processVars, deliveryVars, overlapVars>>

\* what the scoring run leaves alone
judgeFrame ==
  <<store, rankVars, adapterVars, pipelineVars, processVars, deliveryVars,
    overlapVars>>

\* what a delivery leaves alone
deliveryFrame ==
  <<store, rankVars, adapterVars, pipelineVars, processVars, judgeVars,
    overlapVars>>

\* what an invocation of the Weight Adapter leaves alone
overlapFrame ==
  <<rankVars, pipelineVars, processVars, judgeVars, deliveryVars, runs,
    lastRun, feedbackStore>>

vars == <<store, rankVars, adapterVars, pipelineVars, extraVars>>

(***************************************************************************)
(* Score Aggregator and Confidence Classifier.                             *)
(***************************************************************************)
\* cluster.dimension_scores.k || 0
\* the score read without its || 0
ScoreOrZero_Raw(cluster, k) == cluster.dimension_scores[k]

ScoreOrZero(cluster, k) ==
  IF cluster.dimension_scores[k] = Missing THEN 0 ELSE cluster.dimension_scores[k]

calculateFinalScore(cluster, w) ==
  RAdd(RMul(RInt(ScoreOrZero(cluster, "system_shift")), w["system_shift"]),
  RAdd(RMul(RInt(ScoreOrZero(cluster, "signal_timing")), w["signal_timing"]),
  RAdd(RMul(RInt(ScoreOrZero(cluster, "cross_domain")), w["cross_domain"]),
  RAdd(RMul(RInt(ScoreOrZero(cluster, "actionability")), w["actionability"]),
  RAdd(RMul(RInt(ScoreOrZero(cluster, "evidence_quality")), w["evidence_quality"]),
       RMul(RInt(ScoreOrZero(cluster, "disagreement")), w["disagreement"]))))))

\* cluster.assertions.filter(a => a.source).length ; "" is the falsy source
SourceCount(assertions) ==
  Cardinality({i \in 1..Len(assertions) : assertions[i].source # ""})

\* manualBoost && cluster.assertions && cluster.assertions.length > 0
SignalBranch(cluster, manualBoost) ==
  manualBoost /\ Len(cluster.assertions) > 0

assignConfidenceLabel(cluster, manualBoost) ==
  LET evidence == ScoreOrZero(cluster, "evidence_quality")
      timing == ScoreOrZero(cluster, "signal_timing")
      disagreement == ScoreOrZero(cluster, "disagreement")
  IN  IF SignalBranch(cluster, manualBoost)
      THEN IF SourceCount(cluster.assertions) > 1
           THEN "Your Signal -> Confirmed"
           ELSE "Your Signal"
      ELSE IF disagreement >= 8 THEN "Contested"
      ELSE IF evidence >= 8 /\ timing <= 6 THEN "Confirmed Pattern"
      ELSE IF evidence <= 7 /\ timing >= 8 THEN "Early Signal"
      ELSE "Developing"

\* finalScore + config.manual_boost when the cluster is flagged
BoostedScore(cluster, w, cfg) ==
  IF cluster.manual_boost
  THEN RAdd(calculateFinalScore(cluster, w), cfg.manual_boost)
  ELSE calculateFinalScore(cluster, w)

\* { ...cluster, final_score, confidence_label }
WithScore(cluster, w, cfg) ==
  [final_score |-> BoostedScore(cluster, w, cfg),
   confidence_label |-> assignConfidenceLabel(cluster, cluster.manual_boost)]
  @@ cluster

(***************************************************************************)
(* Loading weights and configuration from the store (rankStories, 202-236).*)
(* A store document is a record:                                           *)
(*   readable       FALSE when loadWeights throws (file absent or corrupt) *)
(*   flat           TRUE when the six weights are top-level keys           *)
(*   weights        the six dimension weights                              *)
(*   manual_boost   the manual_boost entry next to them (0 when absent)    *)
(*   thresholds     [present, val]: the thresholds object, 0 = key absent  *)
(*   section_limits [present, val]: max per section, 0 = key absent        *)
(*   meta           which of the keys version, last_updated are present    *)
(*   version, last_updated                                                 *)
(***************************************************************************)
\* judgmentModel && judgmentModel.weights
HasWeightsObject(doc) == doc.readable /\ ~doc.flat
HasThresholds(doc) == doc.readable /\ ~doc.flat /\ doc.thresholds.present
HasSectionLimits(doc) == doc.readable /\ ~doc.flat /\ doc.section_limits.present

\* weights = { ...DEFAULT_WEIGHTS, ...dimensionWeights }
LoadedWeights(doc) ==
  IF HasWeightsObject(doc)
  THEN [k \in Dimensions |-> doc.weights[k]]
  ELSE DEFAULT_WEIGHTS

\* judgmentModel.weights?.manual_boost || DEFAULT_CONFIG.manual_boost
LoadedManualBoost(doc, dflt) ==
  IF HasThresholds(doc) THEN OrElse(doc.manual_boost, dflt.manual_boost)
  ELSE dflt.manual_boost

\* the config object after the thresholds block (lines 213-225)
ConfigAfterThresholds(doc, dflt) ==
  IF HasThresholds(doc)
  THEN [dflt EXCEPT
          !.threshold = [s \in Sections |->
                           OrElse(doc.thresholds.val[s], dflt.threshold[s])],
          !.manual_boost = LoadedManualBoost(doc, dflt)]
  ELSE dflt

\* limits.X?.max || config.X_max   (lines 226-233)
WithSectionLimits(doc, cfg) ==
  IF HasSectionLimits(doc)
  THEN [cfg EXCEPT
          !.max = [s \in Sections |->
                     IF doc.section_limits.val[s] # 0
                     THEN doc.section_limits.val[s] ELSE cfg.max[s]]]
  ELSE cfg

LoadedConfig(doc, dflt) == WithSectionLimits(doc, ConfigAfterThresholds(doc, dflt))

\* `config` aliases DEFAULT_CONFIG unless the thresholds block built a new
\* object, so the section-limit assignments then write the module-level object
DefaultConfigAfterLoad(doc, dflt) ==
  IF HasThresholds(doc) THEN dflt ELSE WithSectionLimits(doc, dflt)

(***************************************************************************)
(* Sorting: Array.prototype.sort with (a, b) => b.final_score - a.final_score *)
(* (stable, descending).                                                   *)
(***************************************************************************)
\* mutant: the clusters left in input order
SortDesc_Unsorted(s) == s

RECURSIVE InsertDesc(_, _)
InsertDesc(x, s) ==
  IF s = <<>> THEN <<x>>
  ELSE IF RGt(Head(s).final_score, x.final_score)
       THEN <<Head(s)>> \o InsertDesc(x, Tail(s))
       ELSE <<x>> \o s

RECURSIVE SortDesc(_)
SortDesc(s) == IF s = <<>> THEN <<>> ELSE InsertDesc(Head(s), SortDesc(Tail(s)))

(***************************************************************************)
(* Section Selector (selectStoriesBySection, lines 71-137).                *)
(***************************************************************************)
EmptySelections == [s \in Sections |-> <<>>]

\* the section loops without their domain tests
DomainMatch_NoFilter(section, domains) == TRUE

\* the domain test of each section's loop; the front page loop has none
DomainMatch(section, domains) ==
  CASE section = "front_page" -> TRUE
    [] section = "business" -> "ai" \in domains \/ "business" \in domains
    [] section = "sports" -> "sports" \in domains
    [] section = "culture" -> "culture" \in domains
    [] section = "personal" -> "personal" \in domains

\* if (selections.X.length >= config.X_max) break
SectionFull(list, max) == Len(list) >= max

\* mutant: the section loops without the used-identifier check
SkipUsed_NoCheck(section, id, used) == FALSE

\* if (usedClusterIds.has(cluster.cluster_id)) continue -- absent from the
\* front page loop (lines 84-90)
SkipUsed(section, id, used) == section # "front_page" /\ id \in used

\* the admission test of a section loop
Admits(section, cluster, cfg) ==
  DomainMatch(section, cluster.domains)
  /\ RGe(cluster.final_score, cfg.threshold[section])

\* mutant: every story numbered 1
Story_RankOne(cluster, rank) == [rank |-> 1] @@ cluster

\* selections.X.push({ ...cluster, rank: rank++ })
Story(cluster, rank) == [rank |-> rank] @@ cluster

\* one for-loop of selectStoriesBySection, from index i on;
\* acc = [list, used, rank]
RECURSIVE ScanSection(_, _, _, _, _)
ScanSection(sorted, i, acc, section, cfg) ==
  IF i > Len(sorted) THEN acc
  ELSE IF SectionFull(acc.list, cfg.max[section]) THEN acc
  ELSE IF SkipUsed(section, sorted[i].cluster_id, acc.used)
       THEN ScanSection(sorted, i + 1, acc, section, cfg)
  ELSE IF Admits(section, sorted[i], cfg)
       THEN ScanSection(sorted, i + 1,
                        [list |-> Append(acc.list, Story(sorted[i], acc.rank)),
                         used |-> acc.used \cup {sorted[i].cluster_id},
                         rank |-> acc.rank + 1],
                        section, cfg)
  ELSE ScanSection(sorted, i + 1, acc, section, cfg)

\* the five loops in order; st = [selections, usedClusterIds, nextRank]
RECURSIVE ScanSections(_, _, _, _)
ScanSections(sorted, k, st, cfg) ==
  IF k > Len(SectionOrder) THEN st
  ELSE LET sec == SectionOrder[k]
           r == ScanSection(sorted, 1,
                            [list |-> <<>>, used |-> st.usedClusterIds,
                             rank |-> st.nextRank], sec, cfg)
       IN  ScanSections(sorted, k + 1,
                        [selections |-> [st.selections EXCEPT ![sec] = r.list],
                         usedClusterIds |-> r.used,
                         nextRank |-> r.rank], cfg)

selectStoriesBySection(sorted, cfg) ==
  ScanSections(sorted, 1,
               [selections |-> EmptySelections, usedClusterIds |-> {},
                nextRank |-> 1], cfg)

\* Object.values(selections).reduce((acc, s) => acc + s.length, 0)
TotalSelected(sel) ==
  Len(sel["front_page"]) + Len(sel["business"]) + Len(sel["sports"])
  + Len(sel["culture"]) + Len(sel["personal"])

(***************************************************************************)
(* Fallback Filler (rankStories, lines 263-314).                           *)
(***************************************************************************)
\* mutant: the fallback also entered when the minimum is exactly met
NeedsFallback_AtMost(total, cfg, n) == total <= cfg.min_total_stories /\ n > 0

\* totalSelected < config.min_total_stories && sortedClusters.length > 0
NeedsFallback(total, cfg, n) == total < cfg.min_total_stories /\ n > 0

Min(a, b) == IF a <= b THEN a ELSE b

\* lines 269-275: seed the front page with the top clusters
RECURSIVE SeedFrontPage(_, _, _, _)
SeedFrontPage(sorted, i, limit, st) ==
  IF i > limit THEN st
  ELSE IF sorted[i].cluster_id \in st.usedClusterIds
       THEN SeedFrontPage(sorted, i + 1, limit, st)
  ELSE SeedFrontPage(sorted, i + 1, limit,
         [selections |-> [st.selections EXCEPT
                            !["front_page"] = Append(@, Story(sorted[i], st.nextRank))],
          usedClusterIds |-> st.usedClusterIds \cup {sorted[i].cluster_id},
          nextRank |-> st.nextRank + 1])

\* mutant: the capacity test of the fill loop off by one
HasRoom_OffByOne(sel, section, cfg) == Len(sel[section]) <= cfg.max[section]

\* selections.X.length < config.X_max
HasRoom(sel, section, cfg) == Len(sel[section]) < cfg.max[section]

\* the if / else-if chain of lines 283-305: the section a cluster goes to,
\* "none" when it is placed nowhere
FillTarget(cluster, sel, cfg) ==
  LET d == cluster.domains
  IN  IF ("ai" \in d \/ "business" \in d) /\ HasRoom(sel, "business", cfg)
      THEN "business"
      ELSE IF "sports" \in d /\ HasRoom(sel, "sports", cfg) THEN "sports"
      ELSE IF "culture" \in d /\ HasRoom(sel, "culture", cfg) THEN "culture"
      ELSE IF "personal" \in d /\ HasRoom(sel, "personal", cfg) THEN "personal"
      ELSE IF HasRoom(sel, "front_page", cfg) THEN "front_page"
      ELSE "none"

\* if (currentTotal >= config.min_total_stories) break
ReachedMinimum(sel, cfg) == TotalSelected(sel) >= cfg.min_total_stories

\* lines 278-310: the fill loop from index i on
RECURSIVE FillLoop(_, _, _, _)
FillLoop(sorted, i, st, cfg) ==
  IF i > Len(sorted) THEN st
  ELSE IF sorted[i].cluster_id \in st.usedClusterIds
       THEN FillLoop(sorted, i + 1, st, cfg)
  ELSE LET t == FillTarget(sorted[i], st.selections, cfg)
           st2 == IF t = "none" THEN st
                  ELSE [selections |-> [st.selections EXCEPT
                                          ![t] = Append(@, Story(sorted[i], st.nextRank))],
                        usedClusterIds |-> st.usedClusterIds \cup {sorted[i].cluster_id},
                        nextRank |-> st.nextRank + 1]
       IN  IF ReachedMinimum(st2.selections, cfg) THEN st2
           ELSE FillLoop(sorted, i + 1, st2, cfg)

\* the whole block of lines 265-314, entered only when NeedsFallback holds
FallbackFill(sorted, st, cfg) ==
  LET seeded == IF TotalSelected(st.selections) = 0
                THEN SeedFrontPage(sorted, 1,
                                   Min(cfg.max["front_page"], Len(sorted)), st)
                ELSE st
  IN  FillLoop(sorted, 1, seeded, cfg)

(***************************************************************************)
(* Diversity (Surprise) Injector (applySupriseQuota, lines 139-173).       *)
(***************************************************************************)
SelectedDomains(sel) ==
  UNION {UNION {sel[s][i].domains : i \in 1..Len(sel[s])} : s \in Sections}

AllDomains(sorted) == UNION {sorted[i].domains : i \in 1..Len(sorted)}

\* mutant: the surprise quota also applied at three covered domains
NarrowCoverage_Three(domains) == Cardinality(domains) <= 3

\* selectedDomains.size <= 2
NarrowCoverage(domains) == Cardinality(domains) <= 2

\* the scan of lines 161-169: <<cluster>> for the first hit, <<>> for none
RECURSIVE FirstSurprise(_, _, _, _, _)
FirstSurprise(sorted, i, used, underrepresented, cfg) ==
  IF i > Len(sorted) THEN <<>>
  ELSE IF sorted[i].cluster_id \in used
       THEN FirstSurprise(sorted, i + 1, used, underrepresented, cfg)
  ELSE IF sorted[i].domains \cap underrepresented # {}
          /\ RGe(sorted[i].final_score, cfg.surprise_quota_threshold)
       THEN <<sorted[i]>>
  ELSE FirstSurprise(sorted, i + 1, used, underrepresented, cfg)

applySupriseQuota(sel, sorted, used, cfg) ==
  IF NarrowCoverage(SelectedDomains(sel))
  THEN FirstSurprise(sorted, 1, used,
                     AllDomains(sorted) \ SelectedDomains(sel), cfg)
  ELSE <<>>

\* the fields of buildSelectedStory this model keeps
\* mutant: the story built without the rank handed in
buildSelectedStory_RankOne(cluster, rank) ==
  [rank |-> 1, cluster_id |-> cluster.cluster_id,
   final_score |-> cluster.final_score,
   confidence_label |-> cluster.confidence_label,
   domains |-> cluster.domains,
   dimension_scores |-> cluster.dimension_scores]

buildSelectedStory(cluster, rank) ==
  [rank |-> rank, cluster_id |-> cluster.cluster_id,
   final_score |-> cluster.final_score,
   confidence_label |-> cluster.confidence_label,
   domains |-> cluster.domains,
   dimension_scores |-> cluster.dimension_scores]

BuildSection(list) == [i \in 1..Len(list) |-> buildSelectedStory(list[i], list[i].rank)]

(***************************************************************************)
(* rankStories (lines 194-346) as four steps of one synchronous run.       *)
(***************************************************************************)
\* !scoredData || !scoredData.scored_clusters, negated
ValidData(data) == data.present /\ "scored_clusters" \in DOMAIN data

\* the call returning an empty selection where line 199 throws
RankReject_ReturnsEmpty ==
  /\ pc = "start"
  /\ ~ValidData(scoredData)
  /\ pc' = "done"
  /\ result' = <<[daily_selections |-> EmptySelections, surprise_pick |-> <<>>,
                  total_stories |-> 0]>>
  /\ UNCHANGED <<pipelineVars, extraVars, adapterVars, store, DEFAULT_CONFIG, scoredData, weights, config,
                 sortedClusters, selections, usedClusterIds, nextRank,
                 fallbackRan, surprisePick>>

\* lines 198-200: throw new Error('Invalid scored data: missing
\* scored_clusters'); the call ends without a return value
RankReject ==
  /\ pc = "start"
  /\ ~ValidData(scoredData)
  /\ pc' = "failed"
  /\ UNCHANGED <<pipelineVars, extraVars, adapterVars, store, DEFAULT_CONFIG, scoredData, weights, config,
                 sortedClusters, selections, usedClusterIds, nextRank,
                 fallbackRan, surprisePick, result>>

\* lines 198-252: validation, loading, scoring, sorting
RankScore ==
  /\ pc = "start"
  /\ ValidData(scoredData)
  /\ weights' = LoadedWeights(store)
  /\ config' = LoadedConfig(store, DEFAULT_CONFIG)
  /\ DEFAULT_CONFIG' = DefaultConfigAfterLoad(store, DEFAULT_CONFIG)
  /\ sortedClusters' =
       SortDesc([i \in 1..Len(scoredData.scored_clusters) |->
                   WithScore(scoredData.scored_clusters[i], weights', config')])
  /\ pc' = "scored"
  /\ UNCHANGED <<pipelineVars, extraVars, adapterVars, store, scoredData, selections, usedClusterIds, nextRank,
                 fallbackRan, surprisePick, result>>

\* line 261: the threshold pass
RankSelect ==
  /\ pc = "scored"
  /\ LET r == selectStoriesBySection(sortedClusters, config)
     IN  /\ selections' = r.selections
         /\ usedClusterIds' = r.usedClusterIds
         /\ nextRank' = r.nextRank
  /\ pc' = "selected"
  /\ UNCHANGED <<pipelineVars, extraVars, adapterVars, store, DEFAULT_CONFIG, scoredData, weights, config,
                 sortedClusters, fallbackRan, surprisePick, result>>

\* lines 263-314: the fallback block, skipped when its condition is false
RankFallback ==
  /\ pc = "selected"
  /\ LET st == [selections |-> selections, usedClusterIds |-> usedClusterIds,
                nextRank |-> nextRank]
         run == NeedsFallback(TotalSelected(selections), config, Len(sortedClusters))
         r == IF run THEN FallbackFill(sortedClusters, st, config) ELSE st
     IN  /\ selections' = r.selections
         /\ usedClusterIds' = r.usedClusterIds
         /\ nextRank' = r.nextRank
         /\ fallbackRan' = run
  /\ pc' = "filled"
  /\ UNCHANGED <<pipelineVars, extraVars, adapterVars, store, DEFAULT_CONFIG, scoredData, weights, config,
                 sortedClusters, surprisePick, result>>

\* lines 316-345: surprise quota, building the result
RankSurprise ==
  /\ pc = "filled"
  /\ surprisePick' =
       IF TotalSelected(selections) > 0
       THEN applySupriseQuota(selections, sortedClusters, usedClusterIds, config)
       ELSE <<>>
  /\ result' =
       <<[daily_selections |-> [s \in Sections |-> BuildSection(selections[s])],
          surprise_pick |->
            IF surprisePick' = <<>> THEN <<>>
            ELSE <<buildSelectedStory(surprisePick'[1], nextRank)>>,
          total_stories |->
            TotalSelected(selections) + Len(surprisePick')]>>
  /\ pc' = "done"
  /\ UNCHANGED <<pipelineVars, extraVars, adapterVars, store, DEFAULT_CONFIG, scoredData, weights, config,
                 sortedClusters, selections, usedClusterIds, nextRank,
                 fallbackRan>>

(***************************************************************************)
(* lib/storage.js: saveWeights.                                            *)
(***************************************************************************)
\* the write without the version step
saveWeights_NoBump(doc, t) ==
  [doc EXCEPT !.last_updated = t,
              !.meta = @ \cup {"version", "last_updated"}]

\* weights.last_updated = new Date().toISOString();
\* weights.version = (weights.version || 0) + 1; write the file
saveWeights(doc, t) ==
  [doc EXCEPT !.last_updated = t,
              !.version = @ + 1,
              !.meta = @ \cup {"version", "last_updated"}]

(***************************************************************************)
(* Feedback Weight Adapter (updateWeightsFromFeedback, lines 348-433).     *)
(* A feedback entry is [reaction, story_domains]; reaction "up" is the     *)
(* thumbs-up, "down" the thumbs-down, anything else another kind.          *)
(* story_domains is {} when the entry carries none.                        *)
(*                                                                         *)
(* The variable `weights` of the function is the whole document that       *)
(* loadWeights returned, so the keys it iterates are the document's        *)
(* top-level keys.  No story domain of the model is named weights,         *)
(* thresholds, section_limits, version or last_updated, and the documents  *)
(* of the model carry both of version and last_updated or neither.         *)
(***************************************************************************)
\* promoted.length, demoted.length
CountReaction(feedback, kind) ==
  Cardinality({i \in 1..Len(feedback) : feedback[i].reaction = kind})

\* dimensionImpact[name] || 0 after the two loops of lines 367-383
RECURSIVE Impact(_, _, _)
Impact(feedback, name, i) ==
  IF i > Len(feedback) THEN 0
  ELSE (IF name \in feedback[i].story_domains
        THEN (IF feedback[i].reaction = "up" THEN 1
              ELSE IF feedback[i].reaction = "down" THEN -1 ELSE 0)
        ELSE 0)
       + Impact(feedback, name, i + 1)

\* Object.keys(weights).filter(k => k !== 'manual_boost')
WeightKeys(doc) ==
  IF doc.flat THEN Dimensions \cup doc.meta
  ELSE {"weights"}
       \cup (IF doc.thresholds.present THEN {"thresholds"} ELSE {})
       \cup (IF doc.section_limits.present THEN {"section_limits"} ELSE {})
       \cup doc.meta

\* the adjustment without its two limits
Adjustment_Unclamped(impact) == RMul(RInt(impact), Rat(1, 100))

\* Math.max(-0.02, Math.min(0.02, impact * 0.01))
Adjustment(impact) ==
  RMax(Rat(-2, 100), RMin(Rat(2, 100), RMul(RInt(impact), Rat(1, 100))))

\* Math.max(0.01, weights[dimension] + adjustment)
Floored(w, adjustment) == RMax(Rat(1, 100), RAdd(w, adjustment))

\* the loop without its test of the impact
AdjustedKeys_All(doc, feedback) == WeightKeys(doc) \cap Dimensions

\* the keys the loop of lines 398-407 adjusts
AdjustedKeys(doc, feedback) ==
  {k \in WeightKeys(doc) \cap Dimensions : Impact(feedback, k, 1) # 0}

\* the six weights after that loop
AdjustedWeights(doc, feedback) ==
  [k \in Dimensions |->
     IF k \in AdjustedKeys(doc, feedback)
     THEN Floored(doc.weights[k], Adjustment(Impact(feedback, k, 1)))
     ELSE doc.weights[k]]

RECURSIVE SumWeights(_, _)
SumWeights(w, k) ==
  IF k > Len(DimensionOrder) THEN Zero
  ELSE RAdd(w[DimensionOrder[k]], SumWeights(w, k + 1))

\* lines 410-412 add up every top-level value but manual_boost, starting
\* from 0.  With an object or a string among them the + concatenates and the
\* total is a string that is no number; it is a number only when the six
\* weights are the only such values.
TotalIsNumber(doc) == doc.flat /\ doc.meta = {}

\* if (totalWeight > 0) weights[key] = weights[key] / totalWeight
Normalized(doc, w) ==
  IF TotalIsNumber(doc) /\ RGt(SumWeights(w, 1), Zero)
  THEN [k \in Dimensions |-> RDiv(w[k], SumWeights(w, 1))]
  ELSE w

NoChanges == [k \in Dimensions |-> Zero]

\* what a run returned and computed; onFile is the number of thumbs-up and
\* thumbs-down entries the feedback files held when it ran
Outcome(kind, updated, total, impact, adjusted, changed, changes, onFile) ==
  [outcome |-> kind, updated |-> updated, totalFeedback |-> total,
   dimensionImpact |-> impact, adjusted |-> adjusted, changed |-> changed,
   changes |-> changes, onFile |-> onFile]

NoRun ==
  Outcome("none", FALSE, 0, [k \in Dimensions |-> 0], DEFAULT_WEIGHTS, {},
          NoChanges, 0)

\* the thumbs-up and thumbs-down entries of all the files
RECURSIVE ReactionsFrom(_, _)
ReactionsFrom(files, d) ==
  IF d \notin DOMAIN files THEN 0
  ELSE CountReaction(files[d], "up") + CountReaction(files[d], "down")
       + ReactionsFrom(files, d + 1)

\* promoted.length + demoted.length
TotalFeedback(feedback) ==
  CountReaction(feedback, "up") + CountReaction(feedback, "down")

\* the run writing the document whatever it found
StoreAfter_AlwaysSaves(doc, feedback, t) ==
  IF ~doc.readable THEN doc
  ELSE saveWeights(
         [doc EXCEPT !.weights = Normalized(doc, AdjustedWeights(doc, feedback))],
         t)

\* the document on disk after the run: untouched when loadWeights throws
\* (catch of line 429) and on the two early returns (lines 356-359 and
\* 388-391), otherwise what line 421 saves
StoreAfter(doc, feedback, t) ==
  IF ~doc.readable \/ Len(feedback) = 0 \/ TotalFeedback(feedback) = 0
  THEN doc
  ELSE saveWeights(
         [doc EXCEPT !.weights = Normalized(doc, AdjustedWeights(doc, feedback))],
         t)

\* lines 355-431: the run from loadWeights on, `feedback` being the list
\* that line 353 received
AdaptFrom(feedback) ==
  /\ runs < MaxRuns
  /\ runs' = runs + 1
  /\ now' = now + 1
  /\ LET total == TotalFeedback(feedback)
         impact == [k \in Dimensions |-> Impact(feedback, k, 1)]
         adjusted == AdjustedWeights(store, feedback)
         changed == AdjustedKeys(store, feedback)
         changes == [k \in Dimensions |->
                       IF k \in changed THEN Adjustment(impact[k]) ELSE Zero]
         onFile == ReactionsFrom(feedbackStore, 1)
     IN  lastRun' =
           IF ~store.readable
           THEN \* loadWeights throws; the catch of line 429 returns
                Outcome("error", FALSE, 0, impact, store.weights, {},
                        NoChanges, onFile)
           ELSE IF Len(feedback) = 0
           THEN Outcome("no_feedback", FALSE, 0, impact, store.weights, {},
                        NoChanges, onFile)
           ELSE IF total = 0
           THEN Outcome("no_reactions", FALSE, 0, impact, store.weights, {},
                        NoChanges, onFile)
           ELSE Outcome("saved", changed # {}, total, impact, adjusted,
                        changed, changes, onFile)
  /\ store' = StoreAfter(store, feedback, now')
  /\ UNCHANGED <<pipelineVars, extraVars, rankVars, feedbackStore>>

(***************************************************************************)
(* lib/storage.js: the feedback files, one per date string.  A date        *)
(* string is modelled by its day number, the order of the strings being    *)
(* the order of the days.  An operand of a comparison is a date string, a  *)
(* number or undefined.                                                    *)
(***************************************************************************)
DateStr(day) == [kind |-> "string", day |-> day]
Num(n) == [kind |-> "number", val |-> n]
Undefined == [kind |-> "undefined"]

\* dateStr >= x.  Two strings compare as strings; against a number the
\* date string converts to NaN, and undefined converts to NaN: false.
JsGe(dateStr, x) == x.kind = "string" /\ dateStr.day >= x.day

\* dateStr <= x
JsLe(dateStr, x) == x.kind = "string" /\ dateStr.day <= x.day

\* the entries of the files from day d on, in the order of the dates
RECURSIVE loadFrom(_, _, _, _)
loadFrom(files, d, startDate, endDate) ==
  IF d \notin DOMAIN files THEN <<>>
  ELSE (IF JsGe(DateStr(d), startDate) /\ JsLe(DateStr(d), endDate)
        THEN files[d] ELSE <<>>)
       \o loadFrom(files, d + 1, startDate, endDate)

loadFeedbackRange(files, startDate, endDate) ==
  loadFrom(files, 1, startDate, endDate)

\* the whole function: line 353 calls loadFeedbackRange(7)
updateWeightsFromFeedback ==
  AdaptFrom(loadFeedbackRange(feedbackStore, Num(7), Undefined))

(***************************************************************************)
(* Inputs of the Weight Adapter runs.                                      *)
(***************************************************************************)
\* the kinds of entry a window holds; the tallies do not depend on the
\* order of the entries, so a window lists them in this order
FeedbackKinds ==
  <<[reaction |-> "up", story_domains |-> {"ai", "system_shift"}],
    [reaction |-> "down", story_domains |-> {"system_shift"}],
    [reaction |-> "up", story_domains |-> {"sports"}],
    [reaction |-> "save", story_domains |-> {"system_shift"}]>>

FeedbackWindows ==
  UNION {{[i \in 1..n |-> FeedbackKinds[f[i]]] :
            f \in {g \in [1..n -> 1..Len(FeedbackKinds)] :
                     \A i \in 1..n : \A j \in 1..n : i <= j => g[i] <= g[j]}} :
         n \in 0..MaxFeedback}

\* the days of the trailing week the model files feedback under
Days == 1..2

StoredEntries == Len(feedbackStore[1]) + Len(feedbackStore[2])

\* saveFeedback(todayStr(), entry): append to the day's file
saveFeedback(day, entry) ==
  /\ StoredEntries < MaxFeedback
  /\ feedbackStore' = [feedbackStore EXCEPT ![day] = Append(@, entry)]
  /\ UNCHANGED <<pipelineVars, extraVars, store, rankVars, now, runs, lastRun>>

NoFeedbackFiles == [d \in Days |-> <<>>]

InitAdapterIdle ==
  /\ now = 1
  /\ runs = 0
  /\ lastRun = NoRun
  /\ feedbackStore = NoFeedbackFiles

(***************************************************************************)
(* The nightly pipeline (run-nightly.js, and the 2:00 AM cron job of the   *)
(* scheduler): six steps in a fixed order, each followed by               *)
(* savePipelineStep(dateStr, '<k>-<name>', data).  A step is one action:   *)
(* the module call and the save of its artifact; what the modules compute  *)
(* is not part of this view.                                               *)
(***************************************************************************)
\* 1-articles, 2-assertions, 3-clusters, 4-scored, 5-ranked, 6-formatted
PipelineSteps == 1..6

\* the dates todayStr() returns in the model
Dates == 1..2

PipelineIdle == [running |-> FALSE, date |-> 1, next |-> 1]

\* runNightlyPipeline is entered: dateStr = todayStr(), and step 1 is next
\* whatever the artifacts directory of the date holds
StartNightly(date) ==
  /\ ~pipeline.running
  /\ starts < MaxStarts
  /\ starts' = starts + 1
  /\ pipeline' = [running |-> TRUE, date |-> date, next |-> 1]
  /\ UNCHANGED <<extraVars, artifacts, papers, executions, store, rankVars, adapterVars>>

\* the step pipeline.next runs and its artifact is saved; after step 6 the
\* paper is saved and the run ends.  With haveArticles false, step 1
\* fetched nothing and run-nightly.js returns (lines 45-49).
PipelineStep(haveArticles) ==
  /\ pipeline.running
  /\ haveArticles \/ pipeline.next = 1
  /\ LET d == pipeline.date
         k == pipeline.next
     IN  /\ executions' = [executions EXCEPT ![d][k] = @ + 1]
         /\ artifacts' = [artifacts EXCEPT ![d] = @ \cup {k}]
         /\ papers' = IF k = 6 THEN papers \cup {d} ELSE papers
         /\ pipeline' = IF k = 6 \/ ~haveArticles THEN PipelineIdle
                        ELSE [pipeline EXCEPT !.next = k + 1]
  /\ UNCHANGED <<extraVars, starts, store, rankVars, adapterVars>>

\* the process is stopped, or a module throws, between two steps
InterruptNightly ==
  /\ pipeline.running
  /\ pipeline.next > 1
  /\ pipeline' = PipelineIdle
  /\ UNCHANGED <<extraVars, artifacts, papers, executions, starts, store, rankVars,
                 adapterVars>>

InitPipelineIdle ==
  /\ pipeline = PipelineIdle
  /\ artifacts = [d \in Dates |-> {}]
  /\ papers = {}
  /\ executions = [d \in Dates |-> [k \in PipelineSteps |-> 0]]
  /\ starts = 0

(***************************************************************************)
(* scoreDimensions and scoreCluster (score-dimensions.js).  The six judge  *)
(* calls of a cluster are started together and settle in any order; the   *)
(* clusters are scored one after the other.                                *)
(***************************************************************************)
MaxClusters == 2

\* the state of one judge call: pending, or settled with the value its
\* .then/.catch chain yields (isNull: the judge answered the JSON null)
Pending == [settled |-> FALSE, isNull |-> FALSE, score |-> 0]
Settled(score) == [settled |-> TRUE, isNull |-> FALSE, score |-> score]
SettledNull == [settled |-> TRUE, isNull |-> TRUE, score |-> 0]

AllPending == [k \in Dimensions |-> Pending]

\* the score the judge returns for lens k of cluster c when the call succeeds
LensIndex(k) == CHOOSE i \in 1..Len(DimensionOrder) : DimensionOrder[i] = k
JudgeScore(c, k) == LensIndex(k) + c

\* mutant: no .catch on the call, the rejection reaching Promise.all
LensValue_NoCatch(outcome, c, k) ==
  IF outcome = "scored" THEN Settled(JudgeScore(c, k)) ELSE SettledNull

\* .then(result => ({[lensKey]: result}))
\* .catch(err => ({[lensKey]: {score: 0, reasoning: ...}}))
LensValue(outcome, c, k) ==
  IF outcome = "rejected" THEN Settled(0)
  ELSE IF outcome = "null" THEN SettledNull
  ELSE Settled(JudgeScore(c, k))

\* Math.round(sum / count)
Round(sum, count) == (2 * sum + count) \div (2 * count)

RECURSIVE SumScores(_, _)
SumScores(scores, k) ==
  IF k > Len(DimensionOrder) THEN 0
  ELSE scores[DimensionOrder[k]] + SumScores(scores, k + 1)

\* the object scoreCluster returns: dimension_scores[lensKey] =
\* lensScore.score || 0
MergedCluster(id, results) ==
  LET scores == [k \in Dimensions |-> results[k].score]
  IN  [cluster_id |-> id, dimension_scores |-> scores,
       overall_score |-> Round(SumScores(scores, 1), Len(DimensionOrder))]

\* the object pushed by the catch block of scoreDimensions
ErrorCluster(id) ==
  [cluster_id |-> id, dimension_scores |-> [k \in Dimensions |-> 0],
   overall_score |-> 0]

\* reading lensScore.score of a null result throws inside scoreCluster
MergeThrows(results) == \E k \in Dimensions : results[k].isNull

HasClusters(data) == "clusters" \in DOMAIN data /\ Len(data.clusters) > 0

\* scoreDimensions up to the first await: the early return, or the six
\* calls of the first cluster started
scoreDimensions ==
  /\ jpc = "start"
  /\ IF HasClusters(clustersData)
     THEN /\ position' = 1
          /\ lensResults' = AllPending
          /\ jpc' = "awaiting"
     ELSE /\ jpc' = "done"
          /\ UNCHANGED <<position, lensResults>>
  /\ scored_clusters' = <<>>
  /\ UNCHANGED <<clustersData, judge, outOfOrder>>
  /\ UNCHANGED judgeFrame

\* one judge call settles
LensSettle(k) ==
  /\ jpc = "awaiting"
  /\ ~lensResults[k].settled
  /\ lensResults' =
       [lensResults EXCEPT ![k] = LensValue(judge[position][k], position, k)]
  /\ outOfOrder' =
       (outOfOrder \/ \E e \in Dimensions :
                        LensIndex(e) < LensIndex(k) /\ ~lensResults[e].settled)
  /\ UNCHANGED <<clustersData, scored_clusters, position, judge, jpc>>
  /\ UNCHANGED judgeFrame

\* Promise.all resolved: the merge, the push (or the push of the catch
\* block), the delay and the calls of the next cluster
scoreClusterReturn ==
  /\ jpc = "awaiting"
  /\ \A k \in Dimensions : lensResults[k].settled
  /\ scored_clusters' =
       Append(scored_clusters,
              IF MergeThrows(lensResults)
              THEN ErrorCluster(clustersData.clusters[position])
              ELSE MergedCluster(clustersData.clusters[position], lensResults))
  /\ IF position < Len(clustersData.clusters)
     THEN /\ position' = position + 1
          /\ lensResults' = AllPending
          /\ jpc' = "awaiting"
     ELSE /\ jpc' = "done"
          /\ UNCHANGED <<position, lensResults>>
  /\ UNCHANGED <<clustersData, judge, outOfOrder>>
  /\ UNCHANGED judgeFrame

\* no scoring run
InitJudgeIdle ==
  /\ clustersData = [count |-> 0]
  /\ scored_clusters = <<>>
  /\ position = 0
  /\ lensResults = AllPending
  /\ judge = <<>>
  /\ outOfOrder = FALSE
  /\ jpc = "idle"

(***************************************************************************)
(* deliverPaper (deliver.js) with retryWithBackoff, sendMessage and        *)
(* sendEmail (email-client.js).                                            *)
(***************************************************************************)
MaxDeliveries == 4

\* retryWithBackoff(fn, 1, 5000): the last index of its loop
Retries == 1

NoDelivery ==
  [telegram |-> [success |-> FALSE, has_id |-> FALSE],
   email |-> [success |-> FALSE, has_id |-> FALSE]]

NothingAccepted == [telegram |-> FALSE, email |-> FALSE]

\* deliverPaper up to the first await: results initialised
deliverPaper ==
  /\ dpc = "idle"
  /\ deliveries < MaxDeliveries
  /\ deliveries' = deliveries + 1
  /\ delivery_status' = NoDelivery
  /\ accepted' = NothingAccepted
  /\ attempt' = 0
  /\ dpc' = "telegram"
  /\ UNCHANGED <<env, transporter>>
  /\ UNCHANGED deliveryFrame

\* initBot throws when the bot token or the chat id is not set
BotThrows == ~env.telegram

\* one pass of the retry loop around sendMessage(text): the bot accepts the
\* message or the call throws; on acceptance saveMessageMap follows, and a
\* throw there reaches the same catch block
TelegramAttempt(sent, mapSaved) ==
  /\ dpc = "telegram"
  /\ IF sent /\ ~BotThrows
     THEN /\ accepted' = [accepted EXCEPT !.telegram = TRUE]
          /\ delivery_status' =
               [delivery_status EXCEPT
                  !.telegram = [success |-> mapSaved, has_id |-> TRUE]]
          /\ attempt' = 0
          /\ dpc' = "email"
     ELSE /\ attempt' = IF attempt < Retries THEN attempt + 1 ELSE 0
          /\ dpc' = IF attempt < Retries THEN "telegram" ELSE "email"
          /\ UNCHANGED <<accepted, delivery_status>>
  /\ UNCHANGED <<env, transporter, deliveries>>
  /\ UNCHANGED deliveryFrame

\* sendEmail's try/catch: the promise resolves whether sendMail took the
\* message (success: true) or threw (success: false, error)
EmailResolves(took) == TRUE

\* getTransporter throws when no transporter exists and the credentials
\* are not set
TransporterThrows == ~transporter /\ ~env.gmail

\* one pass of the retry loop around sendEmail({...}); took: the SMTP
\* transport takes the message
EmailAttempt(took) ==
  /\ dpc = "email"
  /\ transporter' = (transporter \/ env.gmail)
  /\ IF ~TransporterThrows /\ EmailResolves(took)
     THEN /\ accepted' = [accepted EXCEPT !.email = took]
          /\ delivery_status' =
               [delivery_status EXCEPT
                  !.email = [success |-> TRUE, has_id |-> took]]
          /\ attempt' = 0
          /\ dpc' = "idle"
     ELSE /\ attempt' = IF attempt < Retries THEN attempt + 1 ELSE 0
          /\ dpc' = IF attempt < Retries THEN "email" ELSE "idle"
          /\ UNCHANGED <<accepted, delivery_status>>
  /\ UNCHANGED <<env, deliveries>>
  /\ UNCHANGED deliveryFrame

\* no delivery
InitDeliveryIdle ==
  /\ env = [gmail |-> TRUE, telegram |-> TRUE]
  /\ transporter = FALSE
  /\ dpc = "idle"
  /\ attempt = 0
  /\ delivery_status = NoDelivery
  /\ accepted = NothingAccepted
  /\ deliveries = 0

(***************************************************************************)
(* updateWeightsFromFeedback as the steps between its awaits, for two      *)
(* invocations that may be in progress together: the call up to            *)
(* `await loadFeedbackRange(7)`, the resumption that reads the document    *)
(* (loadWeights) and awaits, the resumption that computes and saves.       *)
(***************************************************************************)
Invocations == 1..2

NotCalled ==
  [pc |-> "idle", feedback |-> <<>>, doc |-> <<>>, wrote |-> <<>>, at |-> 0]

InProgress(c) == c.pc \in {"called", "read"}

\* the run reaches line 421
Persists(doc, feedback) ==
  doc.readable /\ Len(feedback) > 0 /\ TotalFeedback(feedback) > 0

\* mutant: the document written back as it was read
WrittenBy_AsRead(doc, feedback, t) == doc

\* what line 421 writes: the document this invocation read, its weights
\* adjusted and normalized
WrittenBy(doc, feedback, t) ==
  saveWeights(
    [doc EXCEPT !.weights = Normalized(doc, AdjustedWeights(doc, feedback))],
    t)

\* lines 348-353; `feedback` is the list the await of line 353 delivers
AdapterCall(p, feedback) ==
  /\ calls[p].pc = "idle"
  /\ calls' = [calls EXCEPT ![p] = [NotCalled EXCEPT !.pc = "called",
                                                     !.feedback = feedback]]
  /\ overlapped' = (overlapped \/ \E q \in Invocations : InProgress(calls[q]))
  /\ UNCHANGED <<store, now, firstStore>>
  /\ UNCHANGED overlapFrame

\* line 354: loadWeights() and the await on its value; a throw of
\* loadWeights reaches the catch of line 429 and the invocation returns
AdapterRead(p) ==
  /\ calls[p].pc = "called"
  /\ calls' = [calls EXCEPT ![p].pc = IF store.readable THEN "read"
                                      ELSE "returned",
                            ![p].doc = <<store>>]
  /\ UNCHANGED <<store, now, firstStore, overlapped>>
  /\ UNCHANGED overlapFrame

\* lines 356-427: the early returns, or the adjustment and saveWeights
AdapterWrite(p) ==
  /\ calls[p].pc = "read"
  /\ LET doc == calls[p].doc[1]
         feedback == calls[p].feedback
     IN  IF Persists(doc, feedback)
         THEN /\ now' = now + 1
              /\ store' = WrittenBy(doc, feedback, now')
              /\ calls' = [calls EXCEPT ![p].pc = "returned",
                                        ![p].wrote = <<store'>>,
                                        ![p].at = now']
         ELSE /\ calls' = [calls EXCEPT ![p].pc = "returned"]
              /\ UNCHANGED <<store, now>>
  /\ UNCHANGED <<firstStore, overlapped>>
  /\ UNCHANGED overlapFrame

InitOverlapIdle ==
  /\ calls = [p \in Invocations |-> NotCalled]
  /\ firstStore = <<>>
  /\ overlapped = FALSE

InitExtraIdle ==
  /\ InitJudgeIdle
  /\ InitDeliveryIdle
  /\ InitOverlapIdle
  /\ rankRun = 1

(***************************************************************************)
(* Inputs of the ranking runs.                                             *)
(***************************************************************************)
Doc(readable, flat, w, mb, thr, lim, meta, version, last_updated) ==
  [readable |-> readable, flat |-> flat, weights |-> w, manual_boost |-> mb,
   thresholds |-> thr, section_limits |-> lim, meta |-> meta,
   version |-> version, last_updated |-> last_updated]

Absent == [present |-> FALSE, val |-> [s \in Sections |-> 0]]
AbsentThresholds == [present |-> FALSE, val |-> [s \in Sections |-> Zero]]

\* the thresholds object with the shipped values
ShippedThresholds ==
  [present |-> TRUE, val |-> InitialDefaultConfig.threshold]

\* section_limits allowing two front-page stories and one per other section
TightLimits ==
  [present |-> TRUE,
   val |-> [s \in Sections |-> IF s = "front_page" THEN 2 ELSE 1]]

UnreadableStore ==
  Doc(FALSE, FALSE, DEFAULT_WEIGHTS, Zero, AbsentThresholds, Absent, {}, 0, 0)
ShippedStore ==
  Doc(TRUE, FALSE, DEFAULT_WEIGHTS, RInt(2), ShippedThresholds, Absent,
      {"version", "last_updated"}, 1, 0)
TightStore ==
  Doc(TRUE, FALSE, DEFAULT_WEIGHTS, RInt(2), ShippedThresholds, TightLimits,
      {"version", "last_updated"}, 1, 0)

\* section_limits allowing eight front-page stories, the other sections as
\* shipped
WideLimits ==
  [present |-> TRUE,
   val |-> [s \in Sections |->
              IF s = "front_page" THEN 8 ELSE InitialDefaultConfig.max[s]]]

WideStore ==
  Doc(TRUE, FALSE, DEFAULT_WEIGHTS, RInt(2), ShippedThresholds, WideLimits,
      {"version", "last_updated"}, 1, 0)

RankStores == {UnreadableStore, ShippedStore, TightStore}

\* one assertion, carrying a source
OneAssertion == <<[source |-> "A"]>>

Profile(level, domains, boost) ==
  [level |-> level, domains |-> domains, manual_boost |-> boost]

\* profiles of the clusters of a ranking input: the score every dimension
\* carries, the domains, the manual_boost flag
RankProfiles ==
  {Profile(8, {"ai", "sports", "culture"}, FALSE), Profile(6, {"ai"}, FALSE),
   Profile(5, {"ai"}, FALSE), Profile(5, {"sports"}, FALSE),
   Profile(6, {"sports", "culture"}, FALSE), Profile(4, {"culture"}, FALSE),
   Profile(4, {}, FALSE), Profile(3, {"personal"}, TRUE)}

ClusterOf(id, p) ==
  [cluster_id |-> id,
   dimension_scores |-> [k \in Dimensions |-> p.level],
   domains |-> p.domains,
   manual_boost |-> p.manual_boost,
   assertions |-> OneAssertion]

\* cluster i has identifier i, except that with dup the second cluster
\* repeats the identifier of the first (equal headline prefixes)
IdOf(i, dup) == IF dup /\ i = 2 THEN 1 ELSE i

RankInput(head, tailProfile, tailLen, dup) ==
  [present |-> TRUE,
   scored_clusters |->
     [i \in 1..(Len(head) + tailLen) |->
        ClusterOf(IdOf(i, dup),
                  IF i <= Len(head) THEN head[i] ELSE tailProfile)]]

Heads == UNION {[1..n -> RankProfiles] : n \in 0..MaxHead}

RankInputs ==
  {RankInput(h, tp, tl, dup) :
     h \in Heads, tp \in RankProfiles, tl \in 0..MaxTail, dup \in BOOLEAN}

InitRankIdle ==
  /\ DEFAULT_CONFIG = InitialDefaultConfig
  /\ pc = "start"
  /\ weights = DEFAULT_WEIGHTS
  /\ config = InitialDefaultConfig
  /\ sortedClusters = <<>>
  /\ selections = EmptySelections
  /\ usedClusterIds = {}
  /\ nextRank = 1
  /\ fallbackRan = FALSE
  /\ surprisePick = <<>>
  /\ result = <<>>

InitRun ==
  /\ InitPipelineIdle
  /\ InitExtraIdle
  /\ InitRankIdle

\* rankStories() or rankStories(null); rankStories({}) or a scored_clusters
\* of null
InvalidInputs == {[present |-> FALSE], [present |-> TRUE]}

InitRank ==
  /\ store \in RankStores
  /\ scoredData \in RankInputs \cup InvalidInputs
  /\ InitRun
  /\ InitAdapterIdle

NextRank == RankScore \/ RankSelect \/ RankFallback \/ RankSurprise

NextRankOrReject == NextRank \/ RankReject

SpecRank == InitRank /\ [][NextRankOrReject]_vars

(***************************************************************************)
(* Properties of the selection.                                            *)
(***************************************************************************)
IdsOf(list) == {list[i].cluster_id : i \in 1..Len(list)}

AfterThresholdPass == pc \in {"selected", "filled", "done"}

\* the result of the threshold pass alone on the sorted list of the run
ThresholdOnly == selectStoriesBySection(sortedClusters, config).selections

\* C1: no cluster identifier is in two different sections, and the surprise
\* pick's identifier is in no section; after the threshold pass, after the
\* fallback fill, after the surprise injection and in the returned selection.
C1_Exclusive ==
  /\ AfterThresholdPass =>
       \A s1 \in Sections : \A s2 \in Sections \ {s1} :
         IdsOf(selections[s1]) \cap IdsOf(selections[s2]) = {}
  /\ pc = "done" =>
       /\ \A s1 \in Sections : \A s2 \in Sections \ {s1} :
            IdsOf(result[1].daily_selections[s1])
              \cap IdsOf(result[1].daily_selections[s2]) = {}
       /\ \A s \in Sections :
            IdsOf(result[1].surprise_pick)
              \cap IdsOf(result[1].daily_selections[s]) = {}

\* C1 witness: a returned selection with stories in two sections or more,
\* some placed by the fallback fill, and a surprise pick.
C1_Witness ==
  /\ pc = "done"
  /\ fallbackRan
  /\ surprisePick # <<>>
  /\ Cardinality({s \in Sections : selections[s] # <<>>}) >= 2

\* C2: every section holds at most its configured capacity, after the
\* threshold pass, after fallback seed and fill, and in the returned selection.
C2_Capacity ==
  /\ AfterThresholdPass =>
       \A s \in Sections : Len(selections[s]) <= config.max[s]
  /\ pc = "done" =>
       \A s \in Sections : Len(result[1].daily_selections[s]) <= config.max[s]

\* C2 witness: the fallback ran, filled a section and the front page to
\* capacity, and left a cluster unplaced.
C2_Witness ==
  /\ pc = "filled"
  /\ fallbackRan
  /\ Len(selections["front_page"]) = config.max["front_page"]
  /\ \E s \in Sections \ {"front_page"} : Len(selections[s]) = config.max[s]
  /\ \E i \in 1..Len(sortedClusters) :
       sortedClusters[i].cluster_id \notin usedClusterIds

DistinctIds(clusters) ==
  \A i \in 1..Len(clusters) : \A j \in 1..Len(clusters) :
    i # j => clusters[i].cluster_id # clusters[j].cluster_id

\* C3 (as claimed): when the threshold pass admits fewer than
\* min_total_stories, the total after fallback fill is at least
\* min(min_total_stories, number of input clusters).  Stated here for the
\* inputs whose identifiers are pairwise distinct, under the shipped
\* capacities (5, 4, 3, 3, 3).
C3_ReachesMinimum ==
  (pc = "filled" /\ fallbackRan
   /\ DistinctIds(scoredData.scored_clusters)
   /\ config.max = InitialDefaultConfig.max) =>
    TotalSelected(selections)
      >= Min(config.min_total_stories, Len(scoredData.scored_clusters))

\* the lowest of the five section thresholds
LowestThreshold(cfg) ==
  CHOOSE t \in {cfg.threshold[s] : s \in Sections} :
    \A s \in Sections : RGe(cfg.threshold[s], t)

AboveLowest ==
  {i \in 1..Len(sortedClusters) :
     RGt(sortedClusters[i].final_score, LowestThreshold(config))}

\* C4 (as claimed): with at least min_total_stories clusters scoring above
\* the lowest section threshold, the fallback does not run and the sections
\* are those of the threshold pass.
C4_AsClaimed ==
  (pc \in {"filled", "done"}
   /\ Cardinality(AboveLowest) >= config.min_total_stories) =>
    (~fallbackRan /\ selections = ThresholdOnly)

\* C4 (amended): when the threshold pass itself admits at least
\* min_total_stories stories, the fallback does not run and the returned
\* sections are those of the threshold pass.
C4_NoFallbackWhenAdmitted ==
  (pc \in {"filled", "done"}
   /\ TotalSelected(ThresholdOnly) >= config.min_total_stories) =>
    /\ ~fallbackRan
    /\ selections = ThresholdOnly
    /\ pc = "done" =>
         \A s \in Sections :
           result[1].daily_selections[s] = BuildSection(ThresholdOnly[s])

\* C4 witness: a run that returned with exactly min_total_stories stories
\* admitted by the threshold pass and clusters left over.
C4_Witness ==
  /\ pc = "done"
  /\ TotalSelected(ThresholdOnly) = config.min_total_stories
  /\ Len(sortedClusters) > config.min_total_stories
  /\ ~fallbackRan

\* C5: the surprise pick is non-null only when the finalized sections cover
\* at most 2 distinct domains; with 3 or more it is null.
C5_SurpriseOnlyWhenNarrow ==
  pc = "done" =>
    /\ result[1].surprise_pick # <<>>
         => Cardinality(SelectedDomains(selections)) <= 2
    /\ Cardinality(SelectedDomains(selections)) >= 3
         => (surprisePick = <<>> /\ result[1].surprise_pick = <<>>)

\* C5 witness: a surprise pick was returned after a fallback fill.
C5_Witness ==
  /\ pc = "done"
  /\ fallbackRan
  /\ result[1].surprise_pick # <<>>
  /\ Cardinality(SelectedDomains(selections)) = 2

(***************************************************************************)
(* Inputs for the Score Aggregator and the Confidence Classifier: one      *)
(* cluster with individually drawn dimension scores, flag and assertions.  *)
(***************************************************************************)
\* a store as the customization guide shows it: weights only, no thresholds
WeightsOnlyStore ==
  Doc(TRUE, FALSE, DEFAULT_WEIGHTS, RInt(3), AbsentThresholds, Absent, {}, 0, 0)
\* hand-tuned weights and manual_boost, thresholds present
TunedStore ==
  Doc(TRUE, FALSE,
      [system_shift |-> Rat(30, 100), signal_timing |-> Rat(10, 100),
       cross_domain |-> Rat(20, 100), actionability |-> Rat(20, 100),
       evidence_quality |-> Rat(15, 100), disagreement |-> Rat(5, 100)],
      RInt(3), ShippedThresholds, Absent, {"version", "last_updated"}, 1, 0)

ScoreStores == {UnreadableStore, ShippedStore, WeightsOnlyStore, TunedStore}

ScoreVectors ==
  {[system_shift |-> a, signal_timing |-> b, cross_domain |-> 3,
    actionability |-> 10, evidence_quality |-> e, disagreement |-> g] :
     a \in {Missing, 9}, b \in {6, 8}, e \in {Missing, 7, 8}, g \in {7, 9}}

AssertionLists ==
  {<<>>, <<[source |-> "A"]>>, <<[source |-> ""]>>,
   <<[source |-> "A"], [source |-> "B"]>>,
   <<[source |-> "A"], [source |-> "A"]>>}

ScoreInputs ==
  {[present |-> TRUE,
    scored_clusters |->
      <<[cluster_id |-> 1, dimension_scores |-> v, domains |-> {"ai"},
         manual_boost |-> b, assertions |-> a]>>] :
     v \in ScoreVectors, b \in BOOLEAN, a \in AssertionLists}

InitScore ==
  /\ store \in ScoreStores
  /\ scoredData \in ScoreInputs
  /\ InitRun
  /\ InitAdapterIdle

SpecScore == InitScore /\ [][NextRank]_vars

\* sum over the dimensions k..6 of score * weight, a missing score being 0
RECURSIVE WeightedSum(_, _, _)
WeightedSum(scores, w, k) ==
  IF k > Len(DimensionOrder) THEN Zero
  ELSE RAdd(RMul(RInt(IF scores[DimensionOrder[k]] = Missing THEN 0
                      ELSE scores[DimensionOrder[k]]),
                 w[DimensionOrder[k]]),
            WeightedSum(scores, w, k + 1))

\* the weights and the manual_boost constant the store holds, the built-in
\* ones when it holds none
StoreWeights(doc) ==
  IF doc.readable /\ ~doc.flat THEN doc.weights ELSE DEFAULT_WEIGHTS
StoreManualBoost(doc) ==
  IF doc.readable /\ ~doc.flat /\ doc.manual_boost # Zero
  THEN doc.manual_boost ELSE InitialDefaultConfig.manual_boost

\* C6 (as claimed): final_score is the sum over the six dimensions of
\* score * weight, a missing score counting 0, plus the store's manual_boost
\* constant exactly when the cluster is flagged.
C6_FinalScore ==
  pc = "scored" =>
    \A i \in 1..Len(sortedClusters) :
      sortedClusters[i].final_score =
        RAdd(WeightedSum(sortedClusters[i].dimension_scores,
                         StoreWeights(store), 1),
             IF sortedClusters[i].manual_boost
             THEN StoreManualBoost(store) ELSE Zero)

Labels ==
  {"Your Signal -> Confirmed", "Your Signal", "Contested",
   "Confirmed Pattern", "Early Signal", "Developing"}

HandEditedStore ==
  Doc(TRUE, FALSE,
      [system_shift |-> Rat(30, 100), signal_timing |-> Rat(20, 100),
       cross_domain |-> Rat(20, 100), actionability |-> Rat(20, 100),
       evidence_quality |-> Rat(10, 100), disagreement |-> Rat(5, 1000)],
      RInt(2), ShippedThresholds, Absent, {"version", "last_updated"}, 1, 0)

\* the six weights as top-level keys, the shape updateWeightsFromFeedback
\* iterates; never saved yet
FlatStore ==
  Doc(TRUE, TRUE, DEFAULT_WEIGHTS, RInt(2), AbsentThresholds, Absent, {}, 0, 0)

\* the same shape with one weight at 0.01
FlatLowStore ==
  Doc(TRUE, TRUE,
      [system_shift |-> Rat(24, 100), signal_timing |-> Rat(20, 100),
       cross_domain |-> Rat(20, 100), actionability |-> Rat(20, 100),
       evidence_quality |-> Rat(15, 100), disagreement |-> Rat(1, 100)],
      RInt(2), AbsentThresholds, Absent, {}, 0, 0)

AdapterStores ==
  {UnreadableStore, ShippedStore, HandEditedStore, FlatStore, FlatLowStore}

NoData == [present |-> TRUE, scored_clusters |-> <<>>]

InitAdapter ==
  /\ store \in AdapterStores
  /\ scoredData = NoData
  /\ InitRun
  /\ InitAdapterIdle

captureFeedback ==
  \E day \in Days : \E k \in 1..Len(FeedbackKinds) :
    saveFeedback(day, FeedbackKinds[k])

NextAdapter ==
  \/ captureFeedback
  \/ updateWeightsFromFeedback

SpecAdapter == InitAdapter /\ [][NextAdapter]_vars

(***************************************************************************)
(* The steps of updateWeightsFromFeedback after line 353, applied to       *)
(* every list of entries of FeedbackWindows.                               *)
(***************************************************************************)
AdjustFromWindow == \E feedback \in FeedbackWindows : AdaptFrom(feedback)

NextAdjust == AdjustFromWindow

SpecAdjust == InitAdapter /\ [][NextAdjust]_vars

(***************************************************************************)
(* Claims about the Weight Adapter.                                        *)
(***************************************************************************)
\* C8: after any Weight Adapter run whose feedback window contains positive
\* or negative reactions, the six dimension weights persisted in the store
\* sum to 1.  The files of the model are all inside the trailing week, so
\* the window holds reactions when the files do.  (Stated as the claim
\* words it; the code does not satisfy it.)
C8_SumToOne ==
  (lastRun.outcome \in {"no_feedback", "no_reactions", "saved"}
   /\ lastRun.onFile > 0)
  => SumWeights(store.weights, 1) = RInt(1)

ClampOfTally(tally) ==
  IF tally >= 2 THEN Rat(2, 100)
  ELSE IF tally <= -2 THEN Rat(-2, 100)
  ELSE Rat(tally, 100)

ExampleDomains == <<{"ai"}, {"sports"}, {"culture"}>>

ExampleClusters(levels, order) ==
  [i \in 1..3 |->
     ClusterOf(order[i],
               Profile(levels[order[i]], ExampleDomains[order[i]], FALSE))]

Orders == {o \in [1..3 -> 1..3] : {o[1], o[2], o[3]} = 1..3}

ExampleInputs ==
  {[present |-> TRUE, scored_clusters |-> ExampleClusters(<<a, b, c>>, o)] :
     a \in 8..10, b \in 5..6, c \in 2..4, o \in Orders}

\* cluster 1: all six dimensions 9, ai; cluster 2: all 6, sports;
\* cluster 3: all 3, culture
TheExample ==
  [present |-> TRUE,
   scored_clusters |-> ExampleClusters(<<9, 6, 3>>, <<1, 2, 3>>)]

InitExample ==
  /\ store \in {UnreadableStore, ShippedStore}
  /\ scoredData \in ExampleInputs
  /\ InitRun
  /\ InitAdapterIdle

SpecExample == InitExample /\ [][NextRank]_vars

\* the identifiers and ranks of a returned section
IdRanks(list) == [i \in 1..Len(list) |-> <<list[i].cluster_id, list[i].rank>>]

\* C14 (as claimed): on the example, cluster 1 is in front_page with rank
\* 1, cluster 2 is in sports, cluster 3 is in no section and total_stories
\* is 2.
C14_AsClaimed ==
  (pc = "done" /\ scoredData = TheExample)
  => /\ IdRanks(result[1].daily_selections["front_page"]) = <<<<1, 1>>>>
     /\ 2 \in IdsOf(result[1].daily_selections["sports"])
     /\ \A s \in Sections : 3 \notin IdsOf(result[1].daily_selections[s])
     /\ result[1].total_stories = 2

\* C14 (amended): on the example, cluster 1 is in front_page with rank 1
\* and cluster 2 in sports with rank 2; two stories being fewer than
\* min_total_stories, the fallback fill puts cluster 3 in culture with rank
\* 3; there is no surprise pick and total_stories is 3.
C14_ExampleWithFallback ==
  (pc = "done" /\ scoredData = TheExample)
  => /\ fallbackRan
     /\ IdRanks(result[1].daily_selections["front_page"]) = <<<<1, 1>>>>
     /\ IdRanks(result[1].daily_selections["sports"]) = <<<<2, 2>>>>
     /\ IdRanks(result[1].daily_selections["culture"]) = <<<<3, 3>>>>
     /\ result[1].daily_selections["business"] = <<>>
     /\ result[1].daily_selections["personal"] = <<>>
     /\ result[1].surprise_pick = <<>>
     /\ result[1].total_stories = 3

\* the run on the example has returned
C14_Witness ==
  /\ pc = "done"
  /\ scoredData = TheExample
  /\ store = ShippedStore
  /\ result[1].total_stories = 3

\* C15: rankStories called with no data, or with data that has no
\* scored_clusters list, fails with an error and returns no selection, and
\* no cluster has been scored or selected by then; only such calls fail.
C15_InvalidInputFails ==
  /\ ~ValidData(scoredData)
     => /\ pc \in {"start", "failed"}
        /\ result = <<>>
        /\ sortedClusters = <<>>
        /\ selections = EmptySelections
        /\ usedClusterIds = {}
        /\ DEFAULT_CONFIG = InitialDefaultConfig
  /\ pc = "failed" => ~ValidData(scoredData)

\* the call on data without a scored_clusters list has failed
C15_Witness ==
  /\ pc = "failed"
  /\ scoredData = [present |-> TRUE]
  /\ result = <<>>

(***************************************************************************)
(* Runs on clusters that lack dimension scores: a complete cluster and one *)
(* that carries the score 9 for the dimensions of a set `have` and lacks   *)
(* the others, for every such set.                                         *)
(***************************************************************************)
PartialScores(have) == [k \in Dimensions |-> IF k \in have THEN 9 ELSE Missing]

PartialInputs ==
  {[present |-> TRUE,
    scored_clusters |->
      <<ClusterOf(1, Profile(8, {"ai"}, FALSE)),
        [cluster_id |-> 2, dimension_scores |-> PartialScores(have),
         domains |-> {"sports"}, manual_boost |-> b,
         assertions |-> OneAssertion]>>] :
     have \in SUBSET Dimensions, b \in BOOLEAN}

InitPartial ==
  /\ store \in {UnreadableStore, ShippedStore}
  /\ scoredData \in PartialInputs
  /\ InitRun
  /\ InitAdapterIdle

SpecPartial == InitPartial /\ [][NextRank]_vars

LacksScores(cluster) ==
  \E k \in Dimensions : cluster.dimension_scores[k] = Missing

\* C16: a cluster that lacks one or more of its dimension scores, up to all
\* six, never makes rankStories fail: the run never reaches the failed
\* state, the missing scores count as 0 in the final score, and the run
\* returns a selection.
C16_MissingScoresAreZero ==
  /\ pc # "failed"
  /\ pc \in {"scored", "selected", "filled", "done"}
     => \A i \in 1..Len(sortedClusters) :
          sortedClusters[i].final_score =
            RAdd(WeightedSum(sortedClusters[i].dimension_scores, weights, 1),
                 IF sortedClusters[i].manual_boost
                 THEN config.manual_boost ELSE Zero)
  /\ pc = "done"
     => /\ Len(result) = 1
        /\ result[1].total_stories = Len(sortedClusters)

\* a run on a cluster with none of the six scores has returned, the cluster
\* scored 0 and placed by the fallback
C16_Witness ==
  /\ pc = "done"
  /\ \E i \in 1..Len(sortedClusters) :
       /\ \A k \in Dimensions : sortedClusters[i].dimension_scores[k] = Missing
       /\ sortedClusters[i].final_score = Zero
       /\ sortedClusters[i].cluster_id \in usedClusterIds

(***************************************************************************)
(* Nightly pipeline runs, started, interrupted and started again.          *)
(***************************************************************************)
InitPipeline ==
  /\ store \in {UnreadableStore, ShippedStore}
  /\ scoredData = NoData
  /\ InitRun
  /\ InitAdapterIdle

NextPipeline ==
  \/ \E date \in Dates : StartNightly(date)
  \/ \E haveArticles \in BOOLEAN : PipelineStep(haveArticles)
  \/ InterruptNightly

SpecPipeline == InitPipeline /\ [][NextPipeline]_vars

\* C17: if a nightly run is interrupted after the artifact of step k was
\* saved for its date, a restarted run for the same date resumes at step
\* k+1 and does not execute steps 1..k again: as long as the paper of a
\* date is not saved, a step whose artifact exists for that date is not
\* executed.  (Stated as the claim words it; the code does not satisfy it.)
C17_ResumesAfterLastStep ==
  [][\A d \in Dates : \A k \in PipelineSteps :
       (d \notin papers /\ k \in artifacts[d])
       => executions'[d][k] = executions[d][k]]_vars

\* C18: a Weight Adapter run takes as its input exactly the feedback
\* entries stored under the days of the trailing 7-day window.  The days of
\* the model, Days, are all inside the window, so every thumbs-up and
\* thumbs-down entry on file is to be counted by the run.  (Stated as the
\* claim words it; the code does not satisfy it.)
C18_WindowIsCounted ==
  lastRun.outcome \in {"no_feedback", "no_reactions", "saved"}
  => lastRun.totalFeedback = lastRun.onFile

(***************************************************************************)
(* The threshold pass as the claim C19 words it.                           *)
(***************************************************************************)
\* the domain filter of each section; front_page has none
SectionFilter ==
  [business |-> {"ai", "business"}, sports |-> {"sports"},
   culture |-> {"culture"}, personal |-> {"personal"}]

\* not yet used, domains intersecting the filter, score at or above the
\* threshold, section below capacity
ClaimedAdmission(section, cluster, used, list, cfg) ==
  /\ cluster.cluster_id \notin used
  /\ section = "front_page" \/ cluster.domains \cap SectionFilter[section] # {}
  /\ RGe(cluster.final_score, cfg.threshold[section])
  /\ Len(list) < cfg.max[section]

\* one scan of the clusters in the given order, from index i on
RECURSIVE ClaimedScan(_, _, _, _, _, _)
ClaimedScan(sorted, i, list, used, section, cfg) ==
  IF i > Len(sorted) THEN [list |-> list, used |-> used]
  ELSE IF ClaimedAdmission(section, sorted[i], used, list, cfg)
       THEN ClaimedScan(sorted, i + 1, Append(list, sorted[i].cluster_id),
                        used \cup {sorted[i].cluster_id}, section, cfg)
  ELSE ClaimedScan(sorted, i + 1, list, used, section, cfg)

\* the sections k.. of SectionOrder, in that order
RECURSIVE ClaimedPass(_, _, _, _, _)
ClaimedPass(sorted, k, sel, used, cfg) ==
  IF k > Len(SectionOrder) THEN sel
  ELSE LET r == ClaimedScan(sorted, 1, <<>>, used, SectionOrder[k], cfg)
       IN  ClaimedPass(sorted, k + 1,
                       [sel EXCEPT ![SectionOrder[k]] = r.list], r.used, cfg)

IdSeq(list) == [i \in 1..Len(list) |-> list[i].cluster_id]

SortedDescending(sorted) ==
  \A i \in 1..Len(sorted) : \A j \in 1..Len(sorted) :
    i < j => RGe(sorted[i].final_score, sorted[j].final_score)

\* C19 (as claimed): the threshold pass fills front_page, business, sports,
\* culture, personal in that order, each by one scan in descending
\* final_score order, admitting a cluster if and only if it is not yet
\* used, its domains meet the section's filter, its score is at or above
\* the section's threshold and the section is below capacity.
C19_ThresholdPass ==
  pc = "selected"
  => /\ SortedDescending(sortedClusters)
     /\ [s \in Sections |-> IdSeq(selections[s])]
          = ClaimedPass(sortedClusters, 1, EmptySelections, {}, config)

(***************************************************************************)
(* Ranks.                                                                  *)
(***************************************************************************)
RanksOf(list) == {list[i].rank : i \in 1..Len(list)}

AllRanks(sel) == UNION {RanksOf(sel[s]) : s \in Sections}

\* the k-th admitted story carries rank k: the ranks of the stories are
\* 1..total without gap or repeat, each list in the order of admission
SequentialRanks(sel, next) ==
  /\ AllRanks(sel) = 1..TotalSelected(sel)
  /\ next = TotalSelected(sel) + 1
  /\ \A s \in Sections : \A i \in 1..Len(sel[s]) : \A j \in 1..Len(sel[s]) :
       i < j => sel[s][i].rank < sel[s][j].rank

\* every rank of an earlier section is lower than every rank of a later one
SectionPriorityRanks(sel) ==
  \A a \in 1..Len(SectionOrder) : \A b \in 1..Len(SectionOrder) :
    a < b => \A x \in RanksOf(sel[SectionOrder[a]]) :
               \A y \in RanksOf(sel[SectionOrder[b]]) : x < y

\* C20 (as claimed): ranks are global and increase in section priority
\* order: the k-th cluster admitted gets rank k, ranks never restart per
\* section, and in the returned selection every rank of an earlier section
\* is lower than every rank of a later section.
C20_AsClaimed ==
  pc = "done"
  => /\ SequentialRanks(result[1].daily_selections, nextRank)
     /\ SectionPriorityRanks(result[1].daily_selections)

\* C20 (amended): the k-th cluster admitted gets rank k through the
\* threshold pass and the fallback fill, ranks never restart per section
\* and a surprise pick carries the next rank; every rank of an earlier
\* section is lower than every rank of a later section after the threshold
\* pass, hence in the returned selection of a run whose fallback fill did
\* not run.
C20_GlobalRanks ==
  /\ pc \in {"selected", "filled"} => SequentialRanks(selections, nextRank)
  /\ pc = "selected" => SectionPriorityRanks(selections)
  /\ pc = "done"
     => /\ SequentialRanks(result[1].daily_selections, nextRank)
        /\ result[1].surprise_pick # <<>>
           => result[1].surprise_pick[1].rank = nextRank
        /\ ~fallbackRan => SectionPriorityRanks(result[1].daily_selections)

\* a returned selection whose fallback fill ran and appended a story to an
\* earlier section after a later section had its ranks
C20_Witness ==
  /\ pc = "done"
  /\ fallbackRan
  /\ TotalSelected(result[1].daily_selections) >= 3
  /\ ~SectionPriorityRanks(result[1].daily_selections)

(***************************************************************************)
(* Distinct sources of a cluster.                                          *)
(***************************************************************************)
DistinctSources(assertions) ==
  {assertions[i].source : i \in 1..Len(assertions)} \ {""}

\* C21 (as claimed): a cluster whose manual_boost is true is labelled
\* "Your Signal -> Confirmed" if and only if its assertions name at least 2
\* distinct sources, and "Your Signal" with fewer, several assertions from
\* one source included.
C21_DistinctSources ==
  pc = "scored" =>
    \A i \in 1..Len(sortedClusters) :
      (sortedClusters[i].manual_boost /\ Len(sortedClusters[i].assertions) > 0)
      => sortedClusters[i].confidence_label =
           IF Cardinality(DistinctSources(sortedClusters[i].assertions)) >= 2
           THEN "Your Signal -> Confirmed" ELSE "Your Signal"

(***************************************************************************)
(* Ranking runs on a store whose section_limits give front_page as many    *)
(* places as min_total_stories: an optional first cluster followed by up   *)
(* to MaxTail equal clusters.                                              *)
(***************************************************************************)
WideProfiles ==
  {Profile(4, {}, FALSE), Profile(4, {"culture"}, FALSE),
   Profile(8, {"ai"}, FALSE), Profile(5, {"personal"}, FALSE)}

WideInputs ==
  {RankInput(h, tp, tl, FALSE) :
     h \in {<<>>} \cup {<<p>> : p \in WideProfiles},
     tp \in WideProfiles, tl \in 0..MaxTail}

InitWide ==
  /\ store = WideStore
  /\ scoredData \in WideInputs
  /\ InitRun
  /\ InitAdapterIdle

SpecWide == InitWide /\ [][NextRank]_vars

\* C22 (as claimed): when fallback fill runs, it stops placing clusters as
\* soon as the total across the five sections reaches min_total_stories, so
\* the total after fallback never exceeds min_total_stories, whatever the
\* capacities.
C22_StopsAtMinimum ==
  (pc = "filled" /\ fallbackRan)
  => TotalSelected(selections) <= config.min_total_stories

(***************************************************************************)
(* Scoring runs: up to MaxClusters clusters; for the first cluster any     *)
(* subset of the six calls is rejected, for the others the judge behaves   *)
(* in one of the ways of OtherOutages.                                     *)
(***************************************************************************)
RejectedOn(F) == [k \in Dimensions |-> IF k \in F THEN "rejected" ELSE "scored"]

OtherOutages ==
  {RejectedOn({}), RejectedOn(Dimensions), RejectedOn({"cross_domain"}),
   [RejectedOn({"system_shift"}) EXCEPT !["signal_timing"] = "null"]}

\* cluster identifiers, the first being the greatest
ClusterIds(n) == [i \in 1..n |-> 10 - i]

JudgeInputs ==
  {[count |-> 0], [count |-> 0, clusters |-> <<>>]}
  \cup {[count |-> n, clusters |-> ClusterIds(n)] : n \in 1..MaxClusters}

Judges(n) ==
  {[i \in 1..n |-> IF i = 1 THEN RejectedOn(F) ELSE o] :
     F \in SUBSET Dimensions, o \in OtherOutages}

InitJudge ==
  /\ store = ShippedStore
  /\ scoredData = NoData
  /\ InitPipelineIdle
  /\ InitRankIdle
  /\ InitAdapterIdle
  /\ InitDeliveryIdle
  /\ InitOverlapIdle
  /\ rankRun = 1
  /\ clustersData \in JudgeInputs
  /\ judge \in Judges(clustersData.count)
  /\ scored_clusters = <<>>
  /\ position = 0
  /\ lensResults = AllPending
  /\ outOfOrder = FALSE
  /\ jpc = "start"

NextJudge ==
  \/ scoreDimensions
  \/ \E k \in Dimensions : LensSettle(k)
  \/ scoreClusterReturn

SpecJudge == InitJudge /\ [][NextJudge]_vars

SurpriseRanks(r) == RanksOf(r.surprise_pick)

\* C24: in every selection returned by rankStories, the ranks of all
\* section stories together with the surprise pick are pairwise distinct
\* and are exactly 1..total_stories, the surprise pick (when present)
\* holding the highest rank, whether or not fallback fill ran.
C24_RanksOneToTotal ==
  pc = "done"
  => LET r == result[1]
         ranks == AllRanks(r.daily_selections) \cup SurpriseRanks(r)
     IN  /\ ranks = 1..r.total_stories
         /\ TotalSelected(r.daily_selections) + Len(r.surprise_pick)
              = Cardinality(ranks)
         /\ \A x \in SurpriseRanks(r) : x = r.total_stories

\* a returned selection with a surprise pick after a fallback fill
C24_Witness ==
  /\ pc = "done"
  /\ fallbackRan
  /\ result[1].surprise_pick # <<>>
  /\ result[1].total_stories >= 3

\* C25: in every selection returned by rankStories, the stories inside each
\* section are in non-increasing final_score order and in increasing rank
\* order, including when some of them were appended by the fallback seed or
\* fill phase.
C25_SectionsOrdered ==
  pc = "done"
  => \A s \in Sections :
       LET list == result[1].daily_selections[s]
       IN  \A i \in 1..Len(list) : \A j \in 1..Len(list) :
             i < j => /\ RGe(list[i].final_score, list[j].final_score)
                      /\ list[i].rank < list[j].rank

\* a section holding a story admitted by threshold followed by one appended
\* by the fallback fill
C25_Witness ==
  /\ pc = "done"
  /\ fallbackRan
  /\ \E s \in Sections :
       LET list == result[1].daily_selections[s]
       IN  /\ Len(list) >= 2
           /\ RGe(list[1].final_score, config.threshold[s])
           /\ ~RGe(list[Len(list)].final_score, config.threshold[s])

\* C26 (as claimed): if two input clusters carry the same cluster
\* identifier, at most one of them appears in the returned selection: no
\* identifier occurs twice, not even inside a single section.
C26_NoIdentifierTwice ==
  pc = "done"
  => LET r == result[1]
         ids == UNION {IdsOf(r.daily_selections[s]) : s \in Sections}
                  \cup IdsOf(r.surprise_pick)
     IN  Cardinality(ids) = r.total_stories

MaxRankRuns == 2

\* section limits and no thresholds object
LimitsOnlyStore ==
  Doc(TRUE, FALSE, DEFAULT_WEIGHTS, RInt(2), AbsentThresholds, TightLimits,
      {}, 0, 0)

RunStores == {UnreadableStore, ShippedStore, TightStore, LimitsOnlyStore}

RunInputs ==
  {RankInput(<<Profile(8, {"ai", "sports", "culture"}, FALSE)>>,
             Profile(6, {"ai"}, FALSE), n, FALSE) : n \in 1..4}

\* config/judgment-model.json edited between two nightly runs
EditStore(doc) ==
  /\ pc = "done"
  /\ rankRun < MaxRankRuns
  /\ doc # store
  /\ store' = doc
  /\ UNCHANGED <<rankVars, adapterVars, pipelineVars, extraVars>>

\* the next call of rankStories in the same process: fresh locals, the
\* module-level DEFAULT_CONFIG as the earlier calls left it
RankAgain(data) ==
  /\ pc = "done"
  /\ rankRun < MaxRankRuns
  /\ rankRun' = rankRun + 1
  /\ scoredData' = data
  /\ pc' = "start"
  /\ weights' = DEFAULT_WEIGHTS
  /\ config' = DEFAULT_CONFIG
  /\ sortedClusters' = <<>>
  /\ selections' = EmptySelections
  /\ usedClusterIds' = {}
  /\ nextRank' = 1
  /\ fallbackRan' = FALSE
  /\ surprisePick' = <<>>
  /\ result' = <<>>
  /\ UNCHANGED <<store, DEFAULT_CONFIG, adapterVars, pipelineVars, judgeVars,
                 deliveryVars, overlapVars>>

InitRuns ==
  /\ store \in RunStores
  /\ scoredData \in RunInputs
  /\ InitRun
  /\ InitAdapterIdle

NextRuns ==
  \/ NextRank
  \/ \E doc \in RunStores : EditStore(doc)
  \/ \E data \in RunInputs : RankAgain(data)

SpecRuns == InitRuns /\ [][NextRuns]_vars

\* C28 (as claimed): the configuration a rankStories run uses depends only
\* on the store contents at that run: the built-in default capacities and
\* thresholds are never altered by a run, so a run whose store has no
\* section limits uses the built-in capacities whatever earlier runs in the
\* same process loaded.
C28_ConfigFromStoreOnly ==
  /\ DEFAULT_CONFIG = InitialDefaultConfig
  /\ pc \in {"scored", "selected", "filled", "done"}
     => /\ config = LoadedConfig(store, InitialDefaultConfig)
        /\ ~HasSectionLimits(store) => config.max = InitialDefaultConfig.max

(***************************************************************************)
(* Deliveries: up to MaxDeliveries calls of deliverPaper in one process,   *)
(* with or without mail credentials.                                       *)
(***************************************************************************)
InitDelivery ==
  /\ store = ShippedStore
  /\ scoredData = NoData
  /\ InitPipelineIdle
  /\ InitRankIdle
  /\ InitAdapterIdle
  /\ InitJudgeIdle
  /\ InitOverlapIdle
  /\ rankRun = 1
  /\ env \in [gmail : BOOLEAN, telegram : BOOLEAN]
  /\ transporter = FALSE
  /\ dpc = "idle"
  /\ attempt = 0
  /\ delivery_status = NoDelivery
  /\ accepted = NothingAccepted
  /\ deliveries = 0

NextDelivery ==
  \/ deliverPaper
  \/ \E sent \in BOOLEAN, mapSaved \in BOOLEAN : TelegramAttempt(sent, mapSaved)
  \/ \E took \in BOOLEAN : EmailAttempt(took)

SpecDelivery == InitDelivery /\ [][NextDelivery]_vars

\* C29 (as claimed): deliverPaper reports delivery_status.email.success =
\* true only if the email transport actually accepted the message; whenever
\* the send fails on every attempt, the reported email status is success =
\* false, independently of the Telegram outcome.
C29_EmailStatusTruthful ==
  (dpc = "idle" /\ deliveries > 0)
  => (delivery_status.email.success => accepted.email)

(***************************************************************************)
(* Two invocations of the Weight Adapter on one store, each handed a list  *)
(* of entries of FeedbackWindows, in every interleaving of their steps.    *)
(***************************************************************************)
MaxOverlapFeedback == 2

OverlapStores == {ShippedStore, FlatStore, FlatLowStore, UnreadableStore}

\* the lists of at most MaxOverlapFeedback entries
OverlapWindows == {w \in FeedbackWindows : Len(w) <= MaxOverlapFeedback}

InitOverlap ==
  /\ store \in OverlapStores
  /\ scoredData = NoData
  /\ InitPipelineIdle
  /\ InitRankIdle
  /\ InitAdapterIdle
  /\ InitJudgeIdle
  /\ InitDeliveryIdle
  /\ rankRun = 1
  /\ calls = [p \in Invocations |-> NotCalled]
  /\ firstStore = <<store>>
  /\ overlapped = FALSE

NextOverlap ==
  \/ \E p \in Invocations : \E feedback \in OverlapWindows :
       AdapterCall(p, feedback)
  \/ \E p \in Invocations : AdapterRead(p)
  \/ \E p \in Invocations : AdapterWrite(p)

SpecOverlap == InitOverlap /\ [][NextOverlap]_vars

\* both invocations returned after saving
BothPersisted ==
  \A p \in Invocations : calls[p].pc = "returned" /\ calls[p].wrote # <<>>

\* the invocation that saved first, and the one that saved last
Earlier == CHOOSE p \in Invocations : \A q \in Invocations : calls[p].at <= calls[q].at
Later == CHOOSE p \in Invocations : p # Earlier

C30_LostUpdate ==
  /\ BothPersisted
  /\ overlapped
  /\ store.version = firstStore[1].version + 1

====
